---- MODULE Spec2Model ----
(***************************************************************************)
(* A model of src/main.rs of the ray tracer: the Tuple algebra, the Color  *)
(* channel mapping, and the Canvas with its PPM serialization.             *)
(*                                                                         *)
(* f32 values are modelled as decimal fixed-point numbers: a finite value  *)
(* is an integer count of units, SCALE units making 1.0, with results of   *)
(* arithmetic rounded to the nearest unit (ties to even) and saturating to *)
(* the IEEE infinities beyond FloatMax.  NaN and the two infinities are    *)
(* values of the model and follow the IEEE rules.  +0.0 and -0.0 compare   *)
(* equal in the source and are one value here.                             *)
(***************************************************************************)
EXTENDS Integers, Sequences, FiniteSets

VARIABLES
    canvas,     \* the caller's Canvas binding: [width, height, pixels]
    pc,         \* "live": the binding holds a canvas; "moved": a call
                \* consumed it; "panicked": a call ended in an indexing fault
    call,       \* the last call made: [op, ...arguments]
    ret,        \* what the last call returned
    history,    \* history: (x, y) -> the colors written there, oldest first
    nwrites,    \* number of write_pixel calls made so far
    color,      \* ColorSpec: the Color under conversion
    rgb,        \* ColorSpec: result of Color::to_integers_tuple / to_string
    ta, tb,     \* TupleSpec: the two operand tuples
    tres,       \* TupleSpec: the last operation and its result
    projectile, \* ProjectileSpec: the loop's `let mut projectile`
    environment,\* ProjectileSpec: the Environment passed to every tick
    ppc,        \* ProjectileSpec: "loop" while the while loop runs, then "done"
    launch      \* history: the projectile and environment the loop started with

vars == <<canvas, pc, call, ret, history, nwrites, color, rgb, ta, tb, tres,
          projectile, environment, ppc, launch>>
canvasVars == <<canvas, pc, call, ret, history, nwrites>>
colorVars == <<color, rgb>>
tupleVars == <<ta, tb, tres>>
projVars == <<projectile, environment, ppc, launch>>

---------------------------------------------------------------------------
(* Bounds of the model *)

SCALE == 10         \* units per 1.0 of the fixed-point model of f32
FloatMax == 3000    \* largest finite value, in units (stands for f32::MAX)
MaxWidth == 2       \* widest canvas constructed
MaxHeight == 3      \* tallest canvas constructed
MaxWrites == 2      \* write_pixel calls per run

---------------------------------------------------------------------------
(* f32 *)

PInf == FloatMax + 1
NInf == -PInf
NaN == FloatMax + 2

IsFinite(v) == v >= -FloatMax /\ v <= FloatMax

Abs(n) == IF n < 0 THEN -n ELSE n

Sgn(n) == IF n < 0 THEN -1 ELSE IF n > 0 THEN 1 ELSE 0

\* n / d for d > 0, rounded to the nearest integer, ties to the even one
RoundDiv(n, d) ==
    LET q == n \div d
        r == n % d
    IN  IF 2 * r < d THEN q
        ELSE IF 2 * r > d THEN q + 1
        ELSE IF q % 2 = 0 THEN q ELSE q + 1

\* a real result, in units, as the f32 it rounds to
Sat(n) == IF n > FloatMax THEN PInf ELSE IF n < -FloatMax THEN NInf ELSE n

\* f32 ==, <, > : every comparison with NaN is false
FEq(a, b) == a # NaN /\ b # NaN /\ a = b
FLt(a, b) == a # NaN /\ b # NaN /\ a < b
FGt(a, b) == a # NaN /\ b # NaN /\ a > b
FLe(a, b) == a # NaN /\ b # NaN /\ a <= b

FNeg(a) == IF a = NaN THEN NaN ELSE -a

FAdd(a, b) ==
    IF a = NaN \/ b = NaN THEN NaN
    ELSE IF IsFinite(a) /\ IsFinite(b) THEN Sat(a + b)
    ELSE IF IsFinite(a) THEN b
    ELSE IF IsFinite(b) THEN a
    ELSE IF a = b THEN a ELSE NaN

FSub(a, b) == FAdd(a, FNeg(b))

FMul(a, b) ==
    IF a = NaN \/ b = NaN THEN NaN
    ELSE IF IsFinite(a) /\ IsFinite(b) THEN Sat(RoundDiv(a * b, SCALE))
    ELSE IF a = 0 \/ b = 0 THEN NaN
    ELSE IF Sgn(a) = Sgn(b) THEN PInf ELSE NInf

\* a / b; a zero divisor is +0.0
FDiv(a, b) ==
    IF a = NaN \/ b = NaN THEN NaN
    ELSE IF IsFinite(a) /\ IsFinite(b) THEN
        IF b = 0 THEN (IF a = 0 THEN NaN ELSE IF a > 0 THEN PInf ELSE NInf)
        ELSE Sat(Sgn(b) * RoundDiv(a * SCALE, Abs(b)))
    ELSE IF IsFinite(a) THEN 0
    ELSE IF IsFinite(b) THEN (IF Sgn(a) * Sgn(b) >= 0 THEN a ELSE -a)
    ELSE NaN

\* the integer nearest to the square root of n >= 0
ISqrt(n) ==
    LET r == CHOOSE k \in 0..n : k * k <= n /\ n < (k + 1) * (k + 1)
    IN  IF n - r * r <= (r + 1) * (r + 1) - n THEN r ELSE r + 1

FSqrt(a) ==
    IF a = NaN \/ a < 0 THEN NaN
    ELSE IF a = PInf THEN PInf
    ELSE ISqrt(a * SCALE)

\* f32::clamp(self, min, max); NaN stays NaN
FClamp(v, min, max) ==
    IF FLt(v, min) THEN min ELSE IF FGt(v, max) THEN max ELSE v

\* f32::round: the nearest integer, half-way cases away from zero
FRound(v) ==
    IF ~IsFinite(v) THEN v
    ELSE Sat(Sgn(v) * ((2 * Abs(v) + SCALE) \div (2 * SCALE)) * SCALE)

I32Max == 2147483647

\* `as i32`: truncates toward zero, saturates, and takes NaN to 0
AsI32(v) ==
    IF v = NaN THEN 0
    ELSE IF v = PInf THEN I32Max
    ELSE IF v = NInf THEN -I32Max - 1
    ELSE Sgn(v) * (Abs(v) \div SCALE)

---------------------------------------------------------------------------
(* Text: a String is the sequence of its characters *)

DigitChars == <<"0", "1", "2", "3", "4", "5", "6", "7", "8", "9">>

\* the decimal digits of n >= 0, as `{}` formats an integer
RECURSIVE Digits(_)
Digits(n) ==
    IF n < 10 THEN <<DigitChars[n + 1]>>
    ELSE Digits(n \div 10) \o <<DigitChars[(n % 10) + 1]>>

\* `{}` of an i32
FormatI32(n) == IF n < 0 THEN <<"-">> \o Digits(-n) ELSE Digits(n)

\* [String]::join(sep)
RECURSIVE Join(_, _)
Join(strs, sep) ==
    IF Len(strs) = 0 THEN <<>>
    ELSE IF Len(strs) = 1 THEN strs[1]
    ELSE strs[1] \o sep \o Join(Tail(strs), sep)

---------------------------------------------------------------------------
(* COLOR *)

Color_new(red, green, blue) == [red |-> red, green |-> green, blue |-> blue]

\* mutant: the scaled value is cast without .round()
clamp_and_truncate(rgb_value) ==
    AsI32(FMul(FClamp(rgb_value, 0, SCALE), 255 * SCALE))

clamp_and_round(rgb_value) ==
    AsI32(FRound(FMul(FClamp(rgb_value, 0, SCALE), 255 * SCALE)))

to_integers_tuple(c) ==
    <<clamp_and_round(c.red), clamp_and_round(c.green), clamp_and_round(c.blue)>>

to_string(c) ==
    LET t == to_integers_tuple(c)
    IN  FormatI32(t[1]) \o <<" ">> \o FormatI32(t[2]) \o <<" ">> \o FormatI32(t[3])

---------------------------------------------------------------------------
(* CANVAS *)

Black == Color_new(0, 0, 0)

\* the outcome of an indexing fault: the call returns nothing
Panic == [panic |-> TRUE]

\* mutant: vec![vec![color; height]; width]
Canvas_new_transposed(width, height) ==
    [width |-> width,
     height |-> height,
     pixels |-> [r \in 1..width |-> [c \in 1..height |-> Black]]]

Canvas_new(width, height) ==
    [width |-> width,
     height |-> height,
     pixels |-> [r \in 1..height |-> [c \in 1..width |-> Black]]]

\* mutant: the grid read as one flat row-major vector, pixels[y * width + x]
pixel_at_flat(cv, x, y) ==
    LET i == y * cv.width + x
    IN  IF i >= cv.width * cv.height THEN Panic
        ELSE [panic |-> FALSE,
              color |-> cv.pixels[(i \div cv.width) + 1][(i % cv.width) + 1]]

\* pixels[y][x]: Vec indexing checks y against the number of rows, then x
\* against the length of row y
pixel_at(cv, x, y) ==
    IF y >= Len(cv.pixels) THEN Panic
    ELSE IF x >= Len(cv.pixels[y + 1]) THEN Panic
    ELSE [panic |-> FALSE, color |-> cv.pixels[y + 1][x + 1]]

\* mutant: pixels[x][y] = color
write_pixel_transposed(cv, x, y, c) ==
    IF x >= Len(cv.pixels) THEN Panic
    ELSE IF y >= Len(cv.pixels[x + 1]) THEN Panic
    ELSE [panic |-> FALSE,
          canvas |-> [width |-> cv.width,
                      height |-> cv.height,
                      pixels |-> [cv.pixels EXCEPT ![x + 1][y + 1] = c]]]

\* mutant: the pixel is written into a fresh grid, not into canvas.pixels
write_pixel_fresh(cv, x, y, c) ==
    IF y >= Len(cv.pixels) THEN Panic
    ELSE IF x >= Len(cv.pixels[y + 1]) THEN Panic
    ELSE [panic |-> FALSE,
          canvas |-> [width |-> cv.width,
                      height |-> cv.height,
                      pixels |-> [Canvas_new(cv.width, cv.height).pixels
                                      EXCEPT ![y + 1][x + 1] = c]]]

write_pixel(cv, x, y, c) ==
    IF y >= Len(cv.pixels) THEN Panic
    ELSE IF x >= Len(cv.pixels[y + 1]) THEN Panic
    ELSE [panic |-> FALSE,
          canvas |-> [width |-> cv.width,
                      height |-> cv.height,
                      pixels |-> [cv.pixels EXCEPT ![y + 1][x + 1] = c]]]

\* mutant: the rows pushed in reverse, bottom row first
pixels_to_string_reversed(pixels) ==
    LET rows == [r \in 1..Len(pixels) |->
                    Join([k \in 1..Len(pixels[Len(pixels) + 1 - r]) |->
                              to_string(pixels[Len(pixels) + 1 - r][k])],
                         <<" ">>)]
    IN  Join(rows, <<"\n">>)

pixels_to_string(pixels) ==
    LET rows == [r \in 1..Len(pixels) |->
                    Join([k \in 1..Len(pixels[r]) |-> to_string(pixels[r][k])],
                         <<" ">>)]
    IN  Join(rows, <<"\n">>)

\* mutant: the format string without its last \n
canvas_to_ppm_unterminated(cv) ==
    <<"P", "3">> \o <<"\n">>
        \o Digits(cv.width) \o <<" ">> \o Digits(cv.height) \o <<"\n">>
        \o FormatI32(255) \o <<"\n">>
        \o pixels_to_string(cv.pixels)

canvas_to_ppm(cv) ==
    <<"P", "3">> \o <<"\n">>
        \o Digits(cv.width) \o <<" ">> \o Digits(cv.height) \o <<"\n">>
        \o FormatI32(255) \o <<"\n">>
        \o pixels_to_string(cv.pixels) \o <<"\n">>

---------------------------------------------------------------------------
(* TUPLE *)

Tuple_new(x, y, z, w) == [x |-> x, y |-> y, z |-> z, w |-> w]

point(x, y, z) == [x |-> x, y |-> y, z |-> z, w |-> SCALE]

vector(x, y, z) == [x |-> x, y |-> y, z |-> z, w |-> 0]

is_point(t) == FEq(t.w, SCALE)

is_vector(t) == FEq(t.w, 0)

\* #[derive(PartialEq)]: == on every field
Tuple_eq(s, t) == FEq(s.x, t.x) /\ FEq(s.y, t.y) /\ FEq(s.z, t.z) /\ FEq(s.w, t.w)

magnitude(t) ==
    FSqrt(FAdd(FAdd(FMul(t.x, t.x), FMul(t.y, t.y)), FMul(t.z, t.z)))

\* mutant: w divided from the wrong field
normalize_w_from_z(t) ==
    [x |-> FDiv(t.x, magnitude(t)),
     y |-> FDiv(t.y, magnitude(t)),
     z |-> FDiv(t.z, magnitude(t)),
     w |-> FDiv(t.z, magnitude(t))]

normalize(t) ==
    [x |-> FDiv(t.x, magnitude(t)),
     y |-> FDiv(t.y, magnitude(t)),
     z |-> FDiv(t.z, magnitude(t)),
     w |-> FDiv(t.w, magnitude(t))]

\* mutant: a sign slip in z
cross_z_plus(a, b) ==
    [x |-> FSub(FMul(a.y, b.z), FMul(a.z, b.y)),
     y |-> FSub(FMul(a.z, b.x), FMul(a.x, b.z)),
     z |-> FAdd(FMul(a.x, b.y), FMul(a.y, b.x)),
     w |-> 0]

cross(a, b) ==
    [x |-> FSub(FMul(a.y, b.z), FMul(a.z, b.y)),
     y |-> FSub(FMul(a.z, b.x), FMul(a.x, b.z)),
     z |-> FSub(FMul(a.x, b.y), FMul(a.y, b.x)),
     w |-> 0]

Tuple_add(s, t) ==
    [x |-> FAdd(s.x, t.x), y |-> FAdd(s.y, t.y),
     z |-> FAdd(s.z, t.z), w |-> FAdd(s.w, t.w)]

\* mutant: w added instead of subtracted
Tuple_sub_w_added(s, t) ==
    [x |-> FSub(s.x, t.x), y |-> FSub(s.y, t.y),
     z |-> FSub(s.z, t.z), w |-> FAdd(s.w, t.w)]

Tuple_sub(s, t) ==
    [x |-> FSub(s.x, t.x), y |-> FSub(s.y, t.y),
     z |-> FSub(s.z, t.z), w |-> FSub(s.w, t.w)]

Tuple_neg(t) ==
    [x |-> FNeg(t.x), y |-> FNeg(t.y), z |-> FNeg(t.z), w |-> FNeg(t.w)]

---------------------------------------------------------------------------
(* PROJECTILE, ENVIRONMENT *)

Projectile_new(position, velocity) == [position |-> position, velocity |-> velocity]

Environment_new(gravity, wind) == [gravity |-> gravity, wind |-> wind]

\* mutant: the velocity is not added to the position
tick_position_kept(env, proj) ==
    [position |-> proj.position,
     velocity |-> Tuple_add(Tuple_add(proj.velocity, env.gravity), env.wind)]

\* mutant: the new velocity starts from the position
tick_velocity_from_position(env, proj) ==
    [position |-> Tuple_add(proj.position, proj.velocity),
     velocity |-> Tuple_add(Tuple_add(proj.position, env.gravity), env.wind)]

\* velocity + gravity + wind is (velocity + gravity) + wind
tick(env, proj) ==
    [position |-> Tuple_add(proj.position, proj.velocity),
     velocity |-> Tuple_add(Tuple_add(proj.velocity, env.gravity), env.wind)]

---------------------------------------------------------------------------
(* Inputs *)

\* the f32 values the operands are drawn from: zero, 1.0, -2.0, f32::MAX, NaN
FloatInputs == {0, SCALE, -2 * SCALE, FloatMax, NaN}

\* points and vectors, as Tuple::point and Tuple::vector construct them
TupleInputs ==
    {point(x, y, z) : x \in FloatInputs, y \in FloatInputs, z \in FloatInputs}
        \cup {vector(x, y, z) : x \in FloatInputs, y \in FloatInputs, z \in FloatInputs}

\* channel values: -0.5 .. 1.5 in steps of one unit, the extremes, NaN
ChannelInputs ==
    (-(SCALE \div 2) .. (SCALE + SCALE \div 2))
        \cup {-FloatMax, FloatMax, NInf, PInf, NaN}

\* the colors written to a canvas: black, red, and one with channels below
\* 0 and above 1 (-0.5, 0.4, 1.7)
Palette ==
    {Black,
     Color_new(SCALE, 0, 0),
     Color_new(-(SCALE \div 2), (4 * SCALE) \div 10, (17 * SCALE) \div 10)}

Coords == (0..MaxWidth) \X (0..MaxHeight)

---------------------------------------------------------------------------
(* The canvas program: Canvas::new, then write_pixel calls, then one       *)
(* consuming call (pixel_at or canvas_to_ppm take the canvas by value).    *)

CanvasInit ==
    \E w \in 0..MaxWidth, h \in 0..MaxHeight :
        /\ canvas = Canvas_new(w, h)
        /\ pc = "live"
        /\ call = [op |-> "new", width |-> w, height |-> h]
        /\ ret = [panic |-> FALSE]
        /\ history = [p \in Coords |-> <<>>]
        /\ nwrites = 0

CanvasIdle ==
    /\ canvas = Canvas_new(0, 0)
    /\ pc = "idle"
    /\ call = [op |-> "none"]
    /\ ret = [panic |-> FALSE]
    /\ history = [p \in Coords |-> <<>>]
    /\ nwrites = 0

\* canvas = Canvas::write_pixel(canvas, x, y, c)
WritePixel(x, y, c) ==
    /\ pc = "live"
    /\ nwrites < MaxWrites
    /\ LET r == write_pixel(canvas, x, y, c)
       IN  /\ ret' = r
           /\ IF r.panic
              THEN pc' = "panicked" /\ UNCHANGED <<canvas, history>>
              ELSE /\ pc' = "live"
                   /\ canvas' = r.canvas
                   /\ history' = [history EXCEPT ![<<x, y>>] = Append(@, c)]
    /\ call' = [op |-> "write_pixel", x |-> x, y |-> y, color |-> c]
    /\ nwrites' = nwrites + 1
    /\ UNCHANGED <<colorVars, tupleVars, projVars>>

\* Canvas::pixel_at(canvas, x, y)
PixelAt(x, y) ==
    /\ pc = "live"
    /\ LET r == pixel_at(canvas, x, y)
       IN  /\ ret' = r
           /\ pc' = IF r.panic THEN "panicked" ELSE "moved"
    /\ call' = [op |-> "pixel_at", x |-> x, y |-> y]
    /\ UNCHANGED <<canvas, history, nwrites, colorVars, tupleVars, projVars>>

\* Canvas::canvas_to_ppm(canvas)
CanvasToPpm ==
    /\ pc = "live"
    /\ ret' = [panic |-> FALSE, text |-> canvas_to_ppm(canvas)]
    /\ pc' = "moved"
    /\ call' = [op |-> "canvas_to_ppm"]
    /\ UNCHANGED <<canvas, history, nwrites, colorVars, tupleVars, projVars>>

---------------------------------------------------------------------------
(* Color conversions applied to an input color *)

ColorInit ==
    /\ color \in [red : ChannelInputs, green : ChannelInputs, blue : ChannelInputs]
    /\ rgb = [op |-> "none"]

ColorIdle ==
    /\ color = Black
    /\ rgb = [op |-> "none"]

ToIntegersTuple ==
    /\ rgb.op = "none"
    /\ rgb' = [op |-> "to_integers_tuple", val |-> to_integers_tuple(color)]
    /\ UNCHANGED <<color, canvasVars, tupleVars, projVars>>

ColorToString ==
    /\ rgb.op = "none"
    /\ rgb' = [op |-> "to_string", val |-> to_string(color)]
    /\ UNCHANGED <<color, canvasVars, tupleVars, projVars>>

---------------------------------------------------------------------------
(* Tuple operations applied to two input tuples *)

TupleInit ==
    /\ ta \in TupleInputs
    /\ tb \in TupleInputs
    /\ tres = [op |-> "none"]

TupleIdle ==
    /\ ta = vector(0, 0, 0)
    /\ tb = vector(0, 0, 0)
    /\ tres = [op |-> "none"]

Add ==
    /\ tres.op = "none"
    /\ tres' = [op |-> "add", val |-> Tuple_add(ta, tb)]
    /\ UNCHANGED <<ta, tb, canvasVars, colorVars, projVars>>

Sub ==
    /\ tres.op = "none"
    /\ tres' = [op |-> "sub", val |-> Tuple_sub(ta, tb)]
    /\ UNCHANGED <<ta, tb, canvasVars, colorVars, projVars>>

Cross ==
    /\ tres.op = "none"
    /\ tres' = [op |-> "cross", val |-> cross(ta, tb)]
    /\ UNCHANGED <<ta, tb, canvasVars, colorVars, projVars>>

Normalize ==
    /\ tres.op = "none"
    /\ tres' = [op |-> "normalize", val |-> normalize(ta)]
    /\ UNCHANGED <<ta, tb, canvasVars, colorVars, projVars>>

---------------------------------------------------------------------------
(* The projectile loop of test_environment_tick_repeated:                  *)
(*   while projectile.position.y > 0.0 { projectile = tick(environment, projectile) } *)

\* starting heights: on the ground, 1.0, f32::MAX, +infinity
PositionYInputs == {0, SCALE, FloatMax, PInf}

\* starting vertical speeds: that of the test (normalize(vector(1, 1, 0)).y),
\* falling, at rest, f32::MAX, +infinity, NaN
VelocityYInputs ==
    {normalize(vector(SCALE, SCALE, 0)).y, -SCALE, 0, FloatMax, PInf, NaN}

\* gravity.y: -0.1 as in the test, none, and an upward 1.0
GravityYInputs == {-(SCALE \div 10), 0, SCALE}

\* wind.y: none as in the test, and a downward 2.0 (wind.x is the test's
\* -0.01, in units)
WindYInputs == {0, -2 * SCALE}

ProjIdle ==
    /\ projectile = Projectile_new(point(0, 0, 0), vector(0, 0, 0))
    /\ environment = Environment_new(vector(0, 0, 0), vector(0, 0, 0))
    /\ ppc = "idle"
    /\ launch = [projectile |-> projectile, environment |-> environment]

ProjInit ==
    /\ \E py \in PositionYInputs, vy \in VelocityYInputs :
          projectile =
              Projectile_new(point(0, py, 0),
                             vector(normalize(vector(SCALE, SCALE, 0)).x, vy, 0))
    /\ \E gy \in GravityYInputs, wy \in WindYInputs :
          environment =
              Environment_new(vector(0, gy, 0), vector(-(SCALE \div 100), wy, 0))
    /\ ppc = "loop"
    /\ launch = [projectile |-> projectile, environment |-> environment]

\* the loop condition holds: one pass through the body
Tick ==
    /\ ppc = "loop"
    /\ FGt(projectile.position.y, 0)
    /\ projectile' = tick(environment, projectile)
    /\ UNCHANGED <<environment, ppc, launch, canvasVars, colorVars, tupleVars>>

\* the loop condition fails: the loop is left
LoopExit ==
    /\ ppc = "loop"
    /\ ~FGt(projectile.position.y, 0)
    /\ ppc' = "done"
    /\ UNCHANGED <<projectile, environment, launch, canvasVars, colorVars, tupleVars>>

---------------------------------------------------------------------------
(* Specifications *)

Init == CanvasInit /\ ColorIdle /\ TupleIdle /\ ProjIdle

Next ==
    \/ \E p \in Coords, c \in Palette : WritePixel(p[1], p[2], c)
    \/ \E p \in Coords : PixelAt(p[1], p[2])
    \/ CanvasToPpm

Spec == Init /\ [][Next]_vars

ColorSpecInit == CanvasIdle /\ ColorInit /\ TupleIdle /\ ProjIdle

ColorNext == ToIntegersTuple \/ ColorToString

ColorSpec == ColorSpecInit /\ [][ColorNext]_vars

TupleSpecInit == CanvasIdle /\ ColorIdle /\ TupleInit /\ ProjIdle

TupleNext == Add \/ Sub \/ Cross \/ Normalize

TupleSpec == TupleSpecInit /\ [][TupleNext]_vars

ProjectileSpecInit == CanvasIdle /\ ColorIdle /\ TupleIdle /\ ProjInit

ProjectileNext == Tick \/ LoopExit

\* the loop is sequential code: while its condition holds the body runs, and
\* when it fails the loop is left
ProjectileSpec ==
    ProjectileSpecInit /\ [][ProjectileNext]_vars
        /\ WF_vars(Tick) /\ WF_vars(LoopExit)

---------------------------------------------------------------------------
(* Reading a canvas history and a PPM text back *)

InRange(p) == p[1] < canvas.width /\ p[2] < canvas.height

\* the color of the most recent write to p; black where nothing was written
LastColor(p) ==
    IF history[p] = <<>> THEN Black ELSE history[p][Len(history[p])]

\* the pieces of s between occurrences of the character sep
Split(s, sep) ==
    LET at == {i \in 1..Len(s) : s[i] = sep}
        \* the position of the k-th separator; 0 and Len(s) + 1 bracket them
        pos(k) == IF k = 0 THEN 0
                  ELSE IF k > Cardinality(at) THEN Len(s) + 1
                  ELSE CHOOSE i \in at : Cardinality({j \in at : j < i}) = k - 1
    IN  [k \in 1..(Cardinality(at) + 1) |-> SubSeq(s, pos(k - 1) + 1, pos(k) - 1)]

DigitValue(ch) == CHOOSE d \in 0..9 : DigitChars[d + 1] = ch

IsNumeral(tok) ==
    /\ Len(tok) > 0
    /\ \A i \in 1..Len(tok) : \E d \in 0..9 : DigitChars[d + 1] = tok[i]

RECURSIVE NumeralValue(_)
NumeralValue(tok) ==
    IF Len(tok) = 0 THEN 0
    ELSE 10 * NumeralValue(SubSeq(tok, 1, Len(tok) - 1)) + DigitValue(tok[Len(tok)])

\* the tokens of pixel-data line y (0-based) of a PPM text
DataTokens(text, y) == Split(Split(text, "\n")[4 + y], " ")

\* the triple at position x (0-based) of pixel-data line y
TripleAt(text, x, y) ==
    LET toks == DataTokens(text, y)
    IN  <<NumeralValue(toks[3 * x + 1]), NumeralValue(toks[3 * x + 2]),
          NumeralValue(toks[3 * x + 3])>>

GridShape(cv) ==
    /\ Len(cv.pixels) = cv.height
    /\ \A r \in 1..Len(cv.pixels) : Len(cv.pixels[r]) = cv.width

---------------------------------------------------------------------------
(* Canvas claims, under Spec *)

\* C1: after Canvas::new and any sequence of in-range write_pixel calls,
\* pixel_at(x, y) returns exactly the color of the most recent write to
\* (x, y), and black for every coordinate never written.
C1_ReadAfterWrite ==
    /\ pc = "live" =>
          \A p \in Coords :
              InRange(p) =>
                  pixel_at(canvas, p[1], p[2]) = [panic |-> FALSE, color |-> LastColor(p)]
    /\ (call.op = "pixel_at" /\ ~ret.panic) =>
          ret.color = LastColor(<<call.x, call.y>>)

\* a read that returns the second of two different colors written to one cell
C1_Witness ==
    /\ call.op = "pixel_at" /\ ~ret.panic
    /\ Len(history[<<call.x, call.y>>]) = 2
    /\ history[<<call.x, call.y>>][1] # history[<<call.x, call.y>>][2]
    /\ ret.color = Color_new(SCALE, 0, 0)
    /\ \E p \in Coords : InRange(p) /\ history[p] = <<>>

\* C2: write_pixel on an in-range (x, y) returns a canvas with the same width
\* and height, a grid of height rows of width cells, and every cell other
\* than (x, y) holding the color it held before.
C2_WriteFrame ==
    pc = "live" =>
        \A p \in Coords, c \in Palette :
            InRange(p) =>
                LET r == write_pixel(canvas, p[1], p[2], c)
                IN  /\ ~r.panic
                    /\ r.canvas.width = canvas.width
                    /\ r.canvas.height = canvas.height
                    /\ GridShape(r.canvas)
                    /\ \A q \in Coords :
                          (InRange(q) /\ q # p) =>
                              r.canvas.pixels[q[2] + 1][q[1] + 1]
                                  = canvas.pixels[q[2] + 1][q[1] + 1]

\* a second write has left the cell of the first write as it was
C2_Witness ==
    /\ call.op = "write_pixel" /\ ~ret.panic /\ nwrites = 2
    /\ canvas.width = 2 /\ canvas.height = 3
    /\ \E q \in Coords :
          /\ InRange(q) /\ q # <<call.x, call.y>>
          /\ Len(history[q]) = 1
          /\ history[q][1] # Black
          /\ canvas.pixels[q[2] + 1][q[1] + 1] = history[q][1]

\* C3: Canvas::new(width, height) with positive width and height records
\* those dimensions and makes height rows of width cells, width * height
\* cells in all, every one black.
C3_NewCanvas ==
    (call.op = "new" /\ call.width > 0 /\ call.height > 0) =>
        /\ canvas.width = call.width
        /\ canvas.height = call.height
        /\ Len(canvas.pixels) = call.height
        /\ \A r \in 1..Len(canvas.pixels) : Len(canvas.pixels[r]) = call.width
        /\ Cardinality({<<r, k>> \in (1..MaxHeight) \X (1..MaxWidth) :
                            r \in DOMAIN canvas.pixels /\ k \in DOMAIN canvas.pixels[r]})
              = call.width * call.height
        /\ \A r \in 1..Len(canvas.pixels) :
              \A k \in 1..Len(canvas.pixels[r]) :
                  /\ canvas.pixels[r][k].red = 0
                  /\ canvas.pixels[r][k].green = 0
                  /\ canvas.pixels[r][k].blue = 0

C3_Witness ==
    /\ call.op = "new" /\ call.width = 2 /\ call.height = 3
    /\ Len(canvas.pixels) = 3 /\ Len(canvas.pixels[3]) = 2
    /\ canvas.pixels[3][2] = Black

\* C4: for a canvas of positive width and height, canvas_to_ppm yields the
\* lines "P3", "<width> <height>", "255", then exactly height pixel lines of
\* 3 * width integers in 0..255 separated by single spaces, and the text
\* ends with exactly one newline after the last pixel row.
C4_PpmLayout ==
    (call.op = "canvas_to_ppm" /\ canvas.width > 0 /\ canvas.height > 0) =>
        LET lines == Split(ret.text, "\n")
            dims == Split(lines[2], " ")
        IN  /\ Len(lines) = 3 + canvas.height + 1
            /\ lines[Len(lines)] = <<>>
            /\ lines[1] = <<"P", "3">>
            /\ Len(dims) = 2
            /\ IsNumeral(dims[1]) /\ NumeralValue(dims[1]) = canvas.width
            /\ IsNumeral(dims[2]) /\ NumeralValue(dims[2]) = canvas.height
            /\ lines[3] = <<"2", "5", "5">>
            /\ \A y \in 0..(canvas.height - 1) :
                  LET toks == Split(lines[4 + y], " ")
                  IN  /\ Len(toks) = 3 * canvas.width
                      /\ \A i \in 1..Len(toks) :
                            /\ IsNumeral(toks[i])
                            /\ NumeralValue(toks[i]) \in 0..255

\* the 2 x 3 canvas with an out-of-range color written, serialized
C4_Witness ==
    /\ call.op = "canvas_to_ppm"
    /\ canvas.width = 2 /\ canvas.height = 3
    /\ nwrites = 2
    /\ \E p \in Coords : InRange(p) /\ LastColor(p).blue > SCALE
    /\ Len(Split(ret.text, "\n")) = 7

\* C5: in the output of canvas_to_ppm, the triple at position x of
\* pixel-data line y is the channel triple of the color pixel_at(x, y)
\* returns (the color last written to (x, y)), for every 0 <= x < width and
\* 0 <= y < height, non-square canvases included.
C5_PpmRowIsY ==
    call.op = "canvas_to_ppm" =>
        \A p \in Coords :
            InRange(p) =>
                /\ TripleAt(ret.text, p[1], p[2])
                      = to_integers_tuple(pixel_at(canvas, p[1], p[2]).color)
                /\ TripleAt(ret.text, p[1], p[2]) = to_integers_tuple(LastColor(p))

\* on the 2 x 3 canvas, the color written to (1, 2) is the second triple of
\* the third pixel line and of no other
C5_Witness ==
    /\ call.op = "canvas_to_ppm"
    /\ canvas.width = 2 /\ canvas.height = 3
    /\ history[<<1, 2>>] = <<Color_new(SCALE, 0, 0)>>
    /\ TripleAt(ret.text, 1, 2) = <<255, 0, 0>>
    /\ \A p \in Coords : (InRange(p) /\ p # <<1, 2>>) => TripleAt(ret.text, p[1], p[2]) # <<255, 0, 0>>

\* C10: on a width x height canvas, pixel_at(x, y) and write_pixel(x, y, c)
\* succeed iff x < width and y < height; every other coordinate ends in an
\* indexing fault that yields no color and no updated canvas, and no cell is
\* read or written in its place.
C10_Bounds ==
    /\ pc = "live" =>
          \A p \in Coords, c \in Palette :
              LET r == pixel_at(canvas, p[1], p[2])
                  w == write_pixel(canvas, p[1], p[2], c)
              IN  /\ ~r.panic <=> InRange(p)
                  /\ ~w.panic <=> InRange(p)
                  /\ r.panic => r = Panic
                  /\ w.panic => w = Panic
    /\ pc = "panicked" =>
          /\ call.op \in {"pixel_at", "write_pixel"}
          /\ ~InRange(<<call.x, call.y>>)
          /\ ret = Panic
          /\ GridShape(canvas)
          /\ \A q \in Coords :
                InRange(q) => canvas.pixels[q[2] + 1][q[1] + 1] = LastColor(q)
    /\ (call.op \in {"pixel_at", "write_pixel"} /\ ~InRange(<<call.x, call.y>>)) =>
          pc = "panicked"

\* a write at x = width, x < height on the 2 x 3 canvas faults; the earlier
\* write is still in place
C10_Witness ==
    /\ pc = "panicked" /\ call.op = "write_pixel"
    /\ canvas.width = 2 /\ canvas.height = 3
    /\ call.x = 2 /\ call.y = 1
    /\ call.color # Black
    /\ history[<<1, 2>>] # <<>>
    /\ ret = Panic

---------------------------------------------------------------------------
(* Color claims, under ColorSpec *)

\* clamp(v, 0, 1) of a value that is not NaN, in units
ClampedUnits(v) == IF v < 0 THEN 0 ELSE IF v > SCALE THEN SCALE ELSE v

\* C6: to_integers_tuple maps each channel on its own to
\* round-half-away-from-zero(clamp(value, 0, 1) * 255): the result is an
\* integer in 0..255, every value below 0 gives 0, every value above 1 gives
\* 255, and 0.5 gives 128.
C6_ChannelMapping ==
    rgb.op = "to_integers_tuple" =>
        \A i \in 1..3 :
            LET v == <<color.red, color.green, color.blue>>[i]
                r == rgb.val[i]
            IN  /\ r \in 0..255
                /\ FLt(v, 0) => r = 0
                /\ FGt(v, SCALE) => r = 255
                /\ 2 * v = SCALE => r = 128
                \* r is the integer nearest to clamp(v) * 255, the upper one
                \* of the two when clamp(v) * 255 is half-way between them
                /\ v # NaN =>
                      /\ 2 * r * SCALE <= 2 * 255 * ClampedUnits(v) + SCALE
                      /\ 2 * 255 * ClampedUnits(v) + SCALE < 2 * (r + 1) * SCALE

\* Color(0.5, -0.5, +Inf) becomes (128, 0, 255)
C6_Witness ==
    /\ rgb.op = "to_integers_tuple"
    /\ 2 * color.red = SCALE /\ color.green < 0 /\ color.blue = PInf
    /\ rgb.val = <<128, 0, 255>>

---------------------------------------------------------------------------
(* Tuple claims, under TupleSpec *)

\* C7: point - point is a vector, point - vector is a point, vector - vector
\* is a vector and point + vector is a point.
C7_PointVectorTyping ==
    /\ (tres.op = "sub" /\ is_point(ta) /\ is_point(tb)) => is_vector(tres.val)
    /\ (tres.op = "sub" /\ is_point(ta) /\ is_vector(tb)) => is_point(tres.val)
    /\ (tres.op = "sub" /\ is_vector(ta) /\ is_vector(tb)) => is_vector(tres.val)
    /\ (tres.op = "add" /\ is_point(ta) /\ is_vector(tb)) => is_point(tres.val)

\* point(1, 0, -2) - point(-2, 0, 1) = vector(3, 0, -3)
C7_Witness ==
    /\ tres.op = "sub"
    /\ ta = point(SCALE, 0, -2 * SCALE) /\ tb = point(-2 * SCALE, 0, SCALE)
    /\ tres.val = vector(3 * SCALE, 0, -3 * SCALE)
    /\ is_vector(tres.val)

\* C8 as stated: for all vectors a, b, cross(a, b) equals -cross(b, a) in
\* every component, and for all tuples the result of cross has w = 0.
C8_AsStated ==
    tres.op = "cross" =>
        /\ is_vector(tres.val)
        /\ (is_vector(ta) /\ is_vector(tb)) =>
              Tuple_eq(tres.val, Tuple_neg(cross(tb, ta)))

\* two f32 that are equal, or are both NaN
EqOrBothNaN(u, v) == FEq(u, v) \/ (u = NaN /\ v = NaN)

\* C8, amended: for all vectors a, b, each of x, y, z of cross(a, b) equals
\* that of -cross(b, a) or both are NaN; for all tuples the result of cross
\* has w = 0.
C8_CrossAntiCommutes ==
    tres.op = "cross" =>
        /\ is_vector(tres.val)
        /\ (is_vector(ta) /\ is_vector(tb)) =>
              LET n == Tuple_neg(cross(tb, ta))
              IN  /\ EqOrBothNaN(tres.val.x, n.x)
                  /\ EqOrBothNaN(tres.val.y, n.y)
                  /\ EqOrBothNaN(tres.val.z, n.z)
                  /\ FEq(tres.val.w, n.w)

\* cross(vector(1, -2, 0), vector(0, 1, -2)) = vector(4, 2, 1), and the
\* operands swapped give vector(-4, -2, -1)
C8_Witness ==
    /\ tres.op = "cross"
    /\ ta = vector(SCALE, -2 * SCALE, 0) /\ tb = vector(0, SCALE, -2 * SCALE)
    /\ tres.val = vector(4 * SCALE, 2 * SCALE, SCALE)
    /\ cross(tb, ta) = vector(-4 * SCALE, -2 * SCALE, -SCALE)

\* C9 as stated: for every tuple v with w = 0, normalize(v).w == 0.
C9_AsStated ==
    (tres.op = "normalize" /\ is_vector(ta)) =>
        /\ FEq(tres.val.w, 0)
        /\ is_vector(tres.val)

\* C9, amended: for every tuple v with w = 0 whose magnitude is greater than
\* 0 (so neither 0 nor NaN), normalize(v).w == 0 and is_vector(normalize(v)).
C9_NormalizeKeepsVector ==
    (tres.op = "normalize" /\ is_vector(ta) /\ FGt(magnitude(ta), 0)) =>
        /\ FEq(tres.val.w, 0)
        /\ is_vector(tres.val)

\* normalize(vector(-2, 0, 0)) = vector(-1, 0, 0)
C9_Witness ==
    /\ tres.op = "normalize"
    /\ ta = vector(-2 * SCALE, 0, 0)
    /\ magnitude(ta) = 2 * SCALE
    /\ tres.val = vector(-SCALE, 0, 0)

---------------------------------------------------------------------------
(* Projectile claims, under ProjectileSpec *)

\* the loop is running above the ground under a net downward pull
Falling ==
    /\ ppc = "loop"
    /\ FGt(projectile.position.y, 0)
    /\ FLt(FAdd(environment.gravity.y, environment.wind.y), 0)

\* the loop has stopped with position.y <= 0
Landed == ppc = "done" /\ FLe(projectile.position.y, 0)

C12_PointVectorKept ==
    (/\ is_point(launch.projectile.position)
     /\ is_vector(launch.projectile.velocity)
     /\ is_vector(launch.environment.gravity)
     /\ is_vector(launch.environment.wind))
        => /\ is_point(projectile.position)
           /\ is_vector(projectile.velocity)
           /\ environment = launch.environment

\* several ticks after a launch of a point with a vector velocity
C12_Witness ==
    /\ is_point(launch.projectile.position)
    /\ is_vector(launch.projectile.velocity)
    /\ launch.projectile.position.y = SCALE
    /\ launch.projectile.velocity.y = 0
    /\ launch.environment.gravity.y + launch.environment.wind.y = -(SCALE \div 10)
    /\ projectile.velocity.y = 3 * launch.environment.gravity.y
    /\ projectile.position.x
          = 3 * launch.projectile.velocity.x + 3 * launch.environment.wind.x
    /\ is_point(projectile.position) /\ is_vector(projectile.velocity)

====
